---- MODULE Spec2Model ----
(***************************************************************************)
(* Red-black tree of src/redblacktree.py (classes RBNode, RedBlackTree).   *)
(*                                                                         *)
(* Objects are heap cells: a node reference is a number, NIL_NODE is the   *)
(* class-level sentinel object and None is Python's None.  Every method is *)
(* an operator that takes the tree T = [root, heap, exc] and gives the     *)
(* tree it leaves behind; exc names the exception raised so far ("none"    *)
(* while there is none), and a raised exception makes every later          *)
(* statement of the call a no-op, as unwinding the Python stack does.      *)
(*                                                                         *)
(* Specifications: Spec (all four public calls on single-value keys),      *)
(* SpecKeys (add and remove_key), SpecAdd (add only), SpecRoundTrip (adds, *)
(* then removals), SpecBucket (add and remove_value on buckets of several  *)
(* values), SpecUpdate (add and update_key), SpecBalance (add, one run of  *)
(* try_rebalance at a time) and SpecRotate (add and the public rotate).    *)
(***************************************************************************)
EXTENDS Integers, Sequences, FiniteSets, TLC

\* ------------------------------------------------------------------ bounds
MaxKey == 6        \* Spec: keys are 1..MaxKey
MaxAddKey == 7     \* SpecAdd: keys are 1..MaxAddKey
MaxBucketKey == 4  \* SpecBucket: keys are 1..MaxBucketKey
MaxVal == 2        \* SpecBucket: values are 1..MaxVal
MaxBucket == 2     \* SpecBucket: add() is not called on a bucket this long
MaxUpdateKey == 3  \* SpecUpdate: keys are 1..MaxUpdateKey
MaxBalanceKey == 8 \* SpecBalance: keys are 1..MaxBalanceKey
MaxRotateKey == 4  \* SpecRotate: keys are 1..MaxRotateKey

Max(a, b) == IF a > b THEN a ELSE b

\* heap cells available for RBNode objects: one for every key of any run
MaxNodes == Max(Max(MaxKey, MaxBalanceKey), Max(MaxAddKey, MaxBucketKey))

Keys == 1..MaxKey
AddKeys == 1..MaxAddKey
BucketKeys == 1..MaxBucketKey
UpdateKeys == 1..MaxUpdateKey
RotateKeys == 1..MaxRotateKey
BalanceKeys == 1..MaxBalanceKey
Values == 1..MaxVal
AllKeys == 1..MaxNodes

\* ------------------------------------------------------- Python constants
None == -1
NIL_NODE == 0
Refs == 1..MaxNodes
Gone == MaxNodes + 1   \* an RBNode object that has left the tree
Cells == 0..(MaxNodes + 1)
NoExc == "none"

black == "black"
NIL == "NIL"
RED == "RED"
LEFT == "LEFT"
RIGHT == "RIGHT"
NoDir == "None"     \* None where a direction is expected

\* RBNode(key, value, color, parent, left, right)
RBNode(key, value, color, parent, left, right) ==
    [key |-> key, values |-> <<value>>, color |-> color,
     parent |-> parent, left |-> left, right |-> right]

\* a heap cell that holds no object
FreeCell ==
    [key |-> None, values |-> <<>>, color |-> "free",
     parent |-> None, left |-> None, right |-> None]

\* the cell of an object that has left the tree; its fields are not kept
GoneCell ==
    [key |-> None, values |-> <<>>, color |-> "gone",
     parent |-> None, left |-> None, right |-> None]

\* NIL_NODE = RBNode(key=None, value=None, color=NIL, parent=None)
NilCell == RBNode(None, None, NIL, None, None, None)

\* raise: the first exception wins, the rest of the call is skipped
Raise(T, e) == IF T.exc = NoExc THEN [T EXCEPT !.exc = e] ELSE T

\* attribute store  n.f = v
SetF(T, n, f, v) ==
    IF T.exc # NoExc THEN T
    ELSE IF n = None THEN Raise(T, "AttributeError")
    ELSE [T EXCEPT !.heap[n][f] = v]

\* the default comparator triple
\* __simple_key_comparator: key_one < key_two, which Python does not define
\* between None and an int or between None and None: it raises TypeError
simple_key_comparator(key_one, key_two) ==
    IF key_one = None \/ key_two = None
    THEN [exc |-> "TypeError", ret |-> FALSE]
    ELSE [exc |-> NoExc, ret |-> key_one < key_two]

simple_key_equals(key_one, key_two) == key_one = key_two
\* a validator that accepts every key
simple_key_validator_any(key) == TRUE

\* isinstance(key, int): the ints of the model are the naturals, None (-1)
\* is none of them
simple_key_validator(key) == key \in Nat

\* RBNode.__eq__ as reached through  a == b  (a is an RBNode or None)
NodeEq(T, a, b) ==
    IF a = None /\ b = None THEN TRUE
    ELSE IF a = None \/ b = None THEN FALSE
    ELSE LET x == T.heap[a]
             y == T.heap[b]
             parents_are_same ==
                 IF x.parent = None \/ y.parent = None
                 THEN x.parent = None /\ y.parent = None
                 ELSE /\ T.heap[x.parent].key = T.heap[y.parent].key
                      /\ T.heap[x.parent].color = T.heap[y.parent].color
         IN  IF x.color = NIL /\ x.color = y.color THEN TRUE
             ELSE x.key = y.key /\ x.color = y.color /\ parents_are_same

\* RBNode.get_children_count / has_children (n is an RBNode)
get_children_count(T, n) ==
    IF T.heap[n].color = NIL THEN 0
    ELSE (IF T.heap[T.heap[n].left].color # NIL THEN 1 ELSE 0)
       + (IF T.heap[T.heap[n].right].color # NIL THEN 1 ELSE 0)

has_children(T, n) == get_children_count(T, n) # 0

get_parent_node(T, n) == IF n = None THEN None ELSE T.heap[n].parent

get_grandparent_node(T, n) == get_parent_node(T, get_parent_node(T, n))

get_node_color(T, n) == IF n = None THEN NIL ELSE T.heap[n].color

get_child_node(T, n) ==
    IF ~NodeEq(T, T.heap[n].left, NIL_NODE) THEN T.heap[n].left
    ELSE T.heap[n].right

\* is_node_red / is_node_black / is_node_not_red on one node
is_node_red(T, n) == T.heap[n].color = RED
is_node_black(T, n) == T.heap[n].color = black

\* is_node_not_red with the comparison turned round
is_node_not_red_inverted(T, n) == T.heap[n].color = RED

is_node_not_red(T, n) == T.heap[n].color # RED

\* node_comparator(node_one, node_two): the comparator on the two keys; None
\* has no _key
node_comparator(T, a, b) ==
    IF a = None \/ b = None THEN [exc |-> "AttributeError", ret |-> FALSE]
    ELSE simple_key_comparator(T.heap[a].key, T.heap[b].key)


\* ------------------------------------------------------------- find_node
\* inner_find(node): the result tuple, the TypeError of a comparison with
\* None, or the RecursionError Python raises when the descent never ends
\* (depth counts the frames; a descent deeper than the number of cells has
\* met the same node twice)
RECURSIVE inner_find(_, _, _, _, _)
inner_find(T, key, to_nil, node, depth) ==
    IF depth > MaxNodes + 1 THEN [kind |-> "RecursionError"]
    ELSE IF node = None \/ NodeEq(T, node, NIL_NODE)
    THEN [kind |-> "tuple", node |-> None, dir |-> NoDir]
    ELSE IF simple_key_equals(key, T.heap[node].key)
    THEN [kind |-> "tuple", node |-> node, dir |-> NoDir]
    ELSE IF simple_key_comparator(key, T.heap[node].key).exc # NoExc
    THEN [kind |-> "TypeError"]
    ELSE IF ~simple_key_comparator(key, T.heap[node].key).ret
    THEN IF to_nil /\ NodeEq(T, T.heap[node].right, NIL_NODE)
         THEN [kind |-> "tuple", node |-> node, dir |-> RIGHT]
         ELSE inner_find(T, key, to_nil, T.heap[node].right, depth + 1)
    ELSE IF to_nil /\ NodeEq(T, T.heap[node].left, NIL_NODE)
         THEN [kind |-> "tuple", node |-> node, dir |-> LEFT]
         ELSE inner_find(T, key, to_nil, T.heap[node].left, depth + 1)

\* find_node(key, to_nil): a tuple (node, direction), or the bare NIL_NODE
\* object when the tree has no root
find_node(T, key, to_nil) ==
    IF T.root # None THEN inner_find(T, key, to_nil, T.root, 1)
    ELSE [kind |-> "object", node |-> NIL_NODE]

\* get_sibling_node(node): (sibling, side of the sibling), or None
get_sibling_node(T, node) ==
    LET parent_node == get_parent_node(T, node)
    IN  IF parent_node # None
        THEN IF NodeEq(T, T.heap[parent_node].left, node)
             THEN [kind |-> "tuple", node |-> T.heap[parent_node].right,
                   dir |-> RIGHT]
             ELSE [kind |-> "tuple", node |-> T.heap[parent_node].left,
                   dir |-> LEFT]
        ELSE [kind |-> "None"]

get_uncle_node(T, node) == get_sibling_node(T, get_parent_node(T, node)).node

\* get_minimum_node(node); None stands for the RecursionError of an endless
\* descent
RECURSIVE get_minimum_node(_, _, _)
get_minimum_node(T, node, depth) ==
    IF depth > MaxNodes + 1 THEN None
    ELSE IF ~NodeEq(T, T.heap[node].left, NIL_NODE)
    THEN get_minimum_node(T, T.heap[node].left, depth + 1)
    ELSE node

\* ---------------------------------------------------------------- rotate
\* __update_parent(node, old_child_node, new_parent_node)
__update_parent(T, node, old_child_node, new_parent_node) ==
    LET T1 == SetF(T, node, "parent", new_parent_node)
    IN  IF T1.exc # NoExc THEN T1
        ELSE IF new_parent_node # None
        THEN IF old_child_node = None THEN Raise(T1, "AttributeError")
             ELSE
             LET is_left == simple_key_comparator(T.heap[old_child_node].key,
                                                  T.heap[new_parent_node].key)
             IN  IF is_left.exc # NoExc THEN Raise(T1, is_left.exc)
                 ELSE IF is_left.ret
                 THEN SetF(T1, new_parent_node, "left", node)
                 ELSE SetF(T1, new_parent_node, "right", node)
        ELSE [T1 EXCEPT !.root = node]

\* rotate() that never recolours
rotate_no_recolor(T, direction, node, parent_node, grandparent_node, to_recolor) ==
    IF T.exc # NoExc THEN T
    ELSE
    LET great_grandparent_node == get_parent_node(T, grandparent_node)
        T1 == __update_parent(T, parent_node, grandparent_node,
                              great_grandparent_node)
        stored_node == IF direction = LEFT THEN T1.heap[parent_node].left
                       ELSE T1.heap[parent_node].right
        T2 == IF direction = LEFT
              THEN SetF(SetF(T1, parent_node, "left", grandparent_node),
                        grandparent_node, "right", stored_node)
              ELSE SetF(SetF(T1, parent_node, "right", grandparent_node),
                        grandparent_node, "left", stored_node)
        T3 == SetF(T2, grandparent_node, "parent", parent_node)
    IN  SetF(T3, stored_node, "parent", grandparent_node)

\* rotate() that leaves the parent reference of the subtree it moves
rotate_stale_parent(T, direction, node, parent_node, grandparent_node, to_recolor) ==
    IF T.exc # NoExc THEN T
    ELSE
    LET great_grandparent_node == get_parent_node(T, grandparent_node)
        T1 == __update_parent(T, parent_node, grandparent_node,
                              great_grandparent_node)
        stored_node == IF direction = LEFT THEN T1.heap[parent_node].left
                       ELSE T1.heap[parent_node].right
        T2 == IF direction = LEFT
              THEN SetF(SetF(T1, parent_node, "left", grandparent_node),
                        grandparent_node, "right", stored_node)
              ELSE SetF(SetF(T1, parent_node, "right", grandparent_node),
                        grandparent_node, "left", stored_node)
        T4 == SetF(T2, grandparent_node, "parent", parent_node)
    IN  IF to_recolor
        THEN SetF(SetF(SetF(T4, parent_node, "color", black),
                       node, "color", RED),
                  grandparent_node, "color", RED)
        ELSE T4

\* rotate(direction, node, parent_node, grandparent_node, to_recolor)
rotate(T, direction, node, parent_node, grandparent_node, to_recolor) ==
    IF T.exc # NoExc THEN T
    ELSE
    LET great_grandparent_node == get_parent_node(T, grandparent_node)
        T1 == __update_parent(T, parent_node, grandparent_node,
                              great_grandparent_node)
        stored_node == IF direction = LEFT THEN T1.heap[parent_node].left
                       ELSE T1.heap[parent_node].right
        T2 == IF direction = LEFT
              THEN SetF(SetF(T1, parent_node, "left", grandparent_node),
                        grandparent_node, "right", stored_node)
              ELSE SetF(SetF(T1, parent_node, "right", grandparent_node),
                        grandparent_node, "left", stored_node)
        T3 == SetF(T2, grandparent_node, "parent", parent_node)
        T4 == SetF(T3, stored_node, "parent", grandparent_node)
    IN  IF to_recolor
        THEN SetF(SetF(SetF(T4, parent_node, "color", black),
                       node, "color", RED),
                  grandparent_node, "color", RED)
        ELSE T4

\* ------------------------------------------- try_rebalance and __recolor
RECURSIVE try_rebalance(_, _)

\* __recolor that colours the grandparent RED even when it is the root
__recolor_root_too(T, grandparent) ==
    LET T1 == SetF(T, T.heap[grandparent].right, "color", black)
        T2 == SetF(T1, T1.heap[grandparent].left, "color", black)
        T3 == SetF(T2, grandparent, "color", RED)
    IN  try_rebalance(T3, grandparent)

\* the colour assignments of __recolor and a rotation of the grandparent's
\* left child over it besides
__recolor_step_rotating(T, grandparent) ==
    LET T1 == SetF(T, T.heap[grandparent].right, "color", black)
        T2 == SetF(T1, T1.heap[grandparent].left, "color", black)
        T3 == IF ~NodeEq(T2, grandparent, T2.root)
              THEN SetF(T2, grandparent, "color", RED)
              ELSE T2
    IN  rotate(T3, RIGHT, None, T3.heap[grandparent].left, grandparent, FALSE)

\* the colour assignments of __recolor(grandparent), before it runs
\* try_rebalance again
__recolor_step(T, grandparent) ==
    LET T1 == SetF(T, T.heap[grandparent].right, "color", black)
        T2 == SetF(T1, T1.heap[grandparent].left, "color", black)
    IN  IF ~NodeEq(T2, grandparent, T2.root)
        THEN SetF(T2, grandparent, "color", RED)
        ELSE T2

\* __recolor(grandparent)
__recolor(T, grandparent) ==
    try_rebalance(__recolor_step(T, grandparent), grandparent)

\* try_rebalance that does not look at the parent's colour
try_rebalance_any_parent(T, node) ==
    IF T.exc # NoExc THEN T
    ELSE
    LET parent_node == get_parent_node(T, node)
        grandparent_node == get_parent_node(T, parent_node)
    IN
    IF \/ parent_node = None
       \/ grandparent_node = None
       \/ is_node_not_red(T, node)
    THEN T
    ELSE IF node_comparator(T, node, parent_node).exc # NoExc
    THEN Raise(T, node_comparator(T, node, parent_node).exc)
    ELSE IF node_comparator(T, parent_node, grandparent_node).exc # NoExc
    THEN Raise(T, node_comparator(T, parent_node, grandparent_node).exc)
    ELSE
    LET node_dir == IF node_comparator(T, node, parent_node).ret
                    THEN LEFT ELSE RIGHT
        parent_node_dir ==
            IF node_comparator(T, parent_node, grandparent_node).ret
            THEN LEFT ELSE RIGHT
        uncle_node == get_uncle_node(T, node)
    IN
    IF is_node_not_red(T, uncle_node)
    THEN
        IF node_dir = LEFT /\ parent_node_dir = LEFT
        THEN rotate(T, RIGHT, node, parent_node, grandparent_node, TRUE)
        ELSE IF node_dir = RIGHT /\ parent_node_dir = RIGHT
        THEN rotate(T, LEFT, node, parent_node, grandparent_node, TRUE)
        ELSE IF node_dir = LEFT /\ parent_node_dir = RIGHT
        THEN rotate(rotate(T, RIGHT, None, node, parent_node, FALSE),
                    LEFT, parent_node, node, grandparent_node, TRUE)
        ELSE rotate(rotate(T, LEFT, None, node, parent_node, FALSE),
                    RIGHT, parent_node, node, grandparent_node, TRUE)
    ELSE __recolor(T, grandparent_node)

\* try_rebalance(node)
try_rebalance(T, node) ==
    IF T.exc # NoExc THEN T
    ELSE
    LET parent_node == get_parent_node(T, node)
        grandparent_node == get_parent_node(T, parent_node)
    IN
    IF \/ parent_node = None
       \/ grandparent_node = None
       \/ is_node_not_red(T, node)
       \/ is_node_not_red(T, parent_node)
    THEN T
    ELSE IF node_comparator(T, node, parent_node).exc # NoExc
    THEN Raise(T, node_comparator(T, node, parent_node).exc)
    ELSE IF node_comparator(T, parent_node, grandparent_node).exc # NoExc
    THEN Raise(T, node_comparator(T, parent_node, grandparent_node).exc)
    ELSE
    LET node_dir == IF node_comparator(T, node, parent_node).ret
                    THEN LEFT ELSE RIGHT
        parent_node_dir ==
            IF node_comparator(T, parent_node, grandparent_node).ret
            THEN LEFT ELSE RIGHT
        uncle_node == get_uncle_node(T, node)
    IN
    IF is_node_not_red(T, uncle_node)
    THEN
        IF node_dir = LEFT /\ parent_node_dir = LEFT
        THEN rotate(T, RIGHT, node, parent_node, grandparent_node, TRUE)
        ELSE IF node_dir = RIGHT /\ parent_node_dir = RIGHT
        THEN rotate(T, LEFT, node, parent_node, grandparent_node, TRUE)
        ELSE IF node_dir = LEFT /\ parent_node_dir = RIGHT
        THEN rotate(rotate(T, RIGHT, None, node, parent_node, FALSE),
                    LEFT, parent_node, node, grandparent_node, TRUE)
        ELSE rotate(rotate(T, LEFT, None, node, parent_node, FALSE),
                    RIGHT, parent_node, node, grandparent_node, TRUE)
    ELSE __recolor(T, grandparent_node)

\* try_rebalance(node) gets as far as __recolor: there are a parent and a
\* grandparent, node and parent are RED and the uncle is RED
ReachesRecolor(T, node) ==
    /\ T.exc = NoExc
    /\ get_parent_node(T, node) # None
    /\ get_grandparent_node(T, node) # None
    /\ ~is_node_not_red(T, node)
    /\ ~is_node_not_red(T, get_parent_node(T, node))
    /\ node_comparator(T, node, get_parent_node(T, node)).exc = NoExc
    /\ node_comparator(T, get_parent_node(T, node),
                       get_grandparent_node(T, node)).exc = NoExc
    /\ ~is_node_not_red(T, get_uncle_node(T, node))

\* one run of try_rebalance(node) that hands the node of its next run to the
\* second one instead
try_rebalance_step_same_node(T, node) ==
    IF ReachesRecolor(T, node)
    THEN [tree |-> __recolor_step(T, get_grandparent_node(T, node)),
          next |-> node]
    ELSE [tree |-> try_rebalance(T, node), next |-> None]

\* one run of try_rebalance(node), up to the call of try_rebalance that
\* __recolor makes: the tree it leaves and the node of that next run, None
\* when it returns without one
try_rebalance_step(T, node) ==
    IF ReachesRecolor(T, node)
    THEN [tree |-> __recolor_step(T, get_grandparent_node(T, node)),
          next |-> get_grandparent_node(T, node)]
    ELSE [tree |-> try_rebalance(T, node), next |-> None]

\* ------------------------------------------------------------------- add
\* the cell a new RBNode object is put in
NewRef(T) == CHOOSE r \in Refs :
                 /\ T.heap[r].color = "free"
                 /\ \A s \in Refs : s < r => T.heap[s].color # "free"

\* validate_key(key): raises when the validator rejects the key
validate_key(T, key) ==
    IF ~simple_key_validator(key) THEN Raise(T, "Exception") ELSE T

\* the part of add() that makes the new RED node and links it under parent
add_new_node(T, parent, node_dir, key, value) ==
    LET new_node == NewRef(T)
        T1 == [T EXCEPT !.heap[new_node] =
                   RBNode(key, value, RED, parent, NIL_NODE, NIL_NODE)]
    IN  IF node_dir = LEFT THEN SetF(T1, parent, "left", new_node)
        ELSE SetF(T1, parent, "right", new_node)

\* add(key, value)
add(T, key, value) ==
    IF validate_key(T, key).exc # NoExc THEN validate_key(T, key)
    ELSE IF T.root = None
    THEN LET r == NewRef(T)
         IN  [T EXCEPT !.root = r,
                       !.heap[r] = RBNode(key, value, black, None,
                                          NIL_NODE, NIL_NODE)]
    ELSE
    LET found == find_node(T, key, TRUE)
    IN
    IF found.kind \in {"RecursionError", "TypeError"}
    THEN Raise(T, found.kind)
    ELSE
    LET parent == found.node
        node_dir == found.dir
    IN
    IF parent = None THEN T
    ELSE IF node_dir = NoDir
    THEN [T EXCEPT !.heap[parent].values = Append(@, value)]
    ELSE
    try_rebalance(add_new_node(T, parent, node_dir, key, value), NewRef(T))


\* -------------------------------------------------------------- contains
\* contains(key): bool(self.find_node(key)[0]); the bare NIL_NODE object
\* find_node gives for an empty tree cannot be subscripted
contains(T, key) ==
    LET found == find_node(T, key, FALSE)
    IN  IF found.kind = "object" THEN [exc |-> "TypeError", ret |-> None]
        ELSE IF found.kind \in {"RecursionError", "TypeError"}
        THEN [exc |-> found.kind, ret |-> None]
        ELSE [exc |-> NoExc, ret |-> found.node # None]

\* ------------------------------------------------- the deletion balancer
RECURSIVE __case_1(_, _)

\* __case_6(node): __case_6_rotation reads ._color of a colour (line 1150),
\* or of None when the sibling has no parent (line 1149), before it changes
\* anything
__case_6(T, node) ==
    IF T.exc # NoExc THEN T
    ELSE
    LET sib == get_sibling_node(T, node)
    IN
    IF sib.kind = "None" THEN Raise(T, "TypeError")
    ELSE
    LET sibling_node == sib.node
        direction == sib.dir
        outer_node == IF direction = LEFT THEN T.heap[sibling_node].left
                      ELSE T.heap[sibling_node].right
    IN  IF is_node_black(T, sibling_node) /\ is_node_red(T, outer_node)
        THEN Raise(T, "AttributeError")
        ELSE Raise(T, "Exception")

\* the step of __case_5 with the two colour assignments left out
__case_5_step_uncoloured(T, node) ==
    LET sib == get_sibling_node(T, node)
        closer_node == IF sib.dir = LEFT THEN T.heap[sib.node].right
                       ELSE T.heap[sib.node].left
    IN  rotate(T, sib.dir, None, closer_node, sib.node, FALSE)

\* the step of __case_5(node) when its test holds: the rotation and the two
\* colour assignments, before it goes on to __case_6
__case_5_step(T, node) ==
    LET sib == get_sibling_node(T, node)
        closer_node == IF sib.dir = LEFT THEN T.heap[sib.node].right
                       ELSE T.heap[sib.node].left
        T1 == rotate(T, sib.dir, None, closer_node, sib.node, FALSE)
        T2 == SetF(T1, closer_node, "color", black)
    IN  SetF(T2, sib.node, "color", RED)

\* __case_5(node)
__case_5(T, node) ==
    IF T.exc # NoExc THEN T
    ELSE
    LET sib == get_sibling_node(T, node)
    IN
    IF sib.kind = "None" THEN Raise(T, "TypeError")
    ELSE
    LET sibling_node == sib.node
        direction == sib.dir
        closer_node == IF direction = LEFT THEN T.heap[sibling_node].right
                       ELSE T.heap[sibling_node].left
        outer_node == IF direction = LEFT THEN T.heap[sibling_node].left
                      ELSE T.heap[sibling_node].right
    IN
    IF closer_node = None THEN Raise(T, "AttributeError")
    ELSE IF /\ is_node_red(T, closer_node)
            /\ is_node_not_red(T, outer_node)
            /\ is_node_black(T, sibling_node)
    THEN __case_6(__case_5_step(T, node), node)
    ELSE __case_6(T, node)

\* __case_4 that colours the parent BLACK and leaves the sibling's colour
__case_4_parent_only(T, node) ==
    IF T.exc # NoExc THEN T
    ELSE
    LET parent_node == get_parent_node(T, node)
        sib == get_sibling_node(T, node)
    IN
    IF parent_node = None THEN Raise(T, "AttributeError")
    ELSE IF /\ is_node_red(T, parent_node)
            /\ is_node_black(T, sib.node)
            /\ is_node_not_red(T, T.heap[sib.node].left)
            /\ is_node_not_red(T, T.heap[sib.node].right)
    THEN SetF(T, parent_node, "color", T.heap[sib.node].color)
    ELSE __case_5(T, node)

\* __case_4(node)
__case_4(T, node) ==
    IF T.exc # NoExc THEN T
    ELSE
    LET parent_node == get_parent_node(T, node)
        sib == get_sibling_node(T, node)
    IN
    IF parent_node = None THEN Raise(T, "AttributeError")
    ELSE IF /\ is_node_red(T, parent_node)
            /\ is_node_black(T, sib.node)
            /\ is_node_not_red(T, T.heap[sib.node].left)
            /\ is_node_not_red(T, T.heap[sib.node].right)
    THEN LET T1 == SetF(T, parent_node, "color", T.heap[sib.node].color)
         IN  SetF(T1, sib.node, "color", T.heap[parent_node].color)
    ELSE __case_5(T, node)

\* the step of __case_3 that colours the parent RED as well
__case_3_step_parent_too(T, node) ==
    LET T1 == SetF(T, get_sibling_node(T, node).node, "color", RED)
    IN  SetF(T1, get_parent_node(T, node), "color", RED)

\* the step of __case_3(node) when its test holds: the colour assignment,
\* before it goes back to __case_1 with the parent
__case_3_step(T, node) ==
    SetF(T, get_sibling_node(T, node).node, "color", RED)

\* __case_3(node)
__case_3(T, node) ==
    IF T.exc # NoExc THEN T
    ELSE
    LET parent_node == get_parent_node(T, node)
        sib == get_sibling_node(T, node)
    IN
    IF sib.kind = "None" THEN Raise(T, "TypeError")
    ELSE IF /\ is_node_black(T, sib.node)
            /\ is_node_black(T, parent_node)
            /\ is_node_not_red(T, T.heap[sib.node].left)
            /\ is_node_not_red(T, T.heap[sib.node].right)
    THEN __case_1(__case_3_step(T, node), parent_node)
    ELSE __case_4(T, node)

\* the step of __case_2(node) when its test holds: the rotation and the two
\* colour assignments, before it goes back to __case_1
__case_2_step(T, node) ==
    LET parent_node == get_parent_node(T, node)
        sib == get_sibling_node(T, node)
        T1 == rotate(T, sib.dir, None, sib.node, parent_node, FALSE)
        T2 == SetF(T1, parent_node, "color", RED)
    IN  SetF(T2, sib.node, "color", black)

\* __case_2(node)
__case_2(T, node) ==
    IF T.exc # NoExc THEN T
    ELSE
    LET parent_node == get_parent_node(T, node)
        sib == get_sibling_node(T, node)
    IN
    IF sib.kind = "None" THEN Raise(T, "TypeError")
    ELSE IF /\ is_node_red(T, sib.node)
            /\ is_node_black(T, parent_node)
            /\ is_node_not_red(T, T.heap[sib.node].left)
            /\ is_node_not_red(T, T.heap[sib.node].right)
    THEN __case_1(__case_2_step(T, node), node)
    ELSE __case_3(T, node)

\* __case_1(node)
__case_1(T, node) ==
    IF T.exc # NoExc THEN T
    ELSE IF NodeEq(T, T.root, node) THEN SetF(T, node, "color", black)
    ELSE __case_2(T, node)

\* --------------------------------------------------------------- removal
\* __remove_leaf(node)
__remove_leaf(T, node) ==
    IF T.exc # NoExc THEN T
    ELSE
    LET parent_node == get_parent_node(T, node)
        is_left == simple_key_comparator(T.heap[node].key,
                                         T.heap[parent_node].key)
    IN  IF parent_node = None THEN Raise(T, "AttributeError")
        ELSE IF is_left.exc # NoExc THEN Raise(T, is_left.exc)
        ELSE IF \/ ~is_left.ret
                \/ simple_key_equals(T.heap[node].key,
                                     T.heap[parent_node].key)
        THEN SetF(T, parent_node, "right", NIL_NODE)
        ELSE SetF(T, parent_node, "left", NIL_NODE)

\* __remove_black_node(node)
__remove_black_node(T, node) == __remove_leaf(__case_1(T, node), node)

\* __remove that takes the RED child's key and bucket but keeps its own
\* child links
__remove_keeps_links(T, node) ==
    LET child_node == get_child_node(T, node)
    IN
    IF NodeEq(T, node, T.root)
    THEN IF ~NodeEq(T, child_node, NIL_NODE)
         THEN LET T1 == [T EXCEPT !.root = child_node]
                  T2 == SetF(T1, T1.root, "parent", None)
              IN  SetF(T2, T2.root, "color", black)
         ELSE [T EXCEPT !.root = None]
    ELSE IF is_node_red(T, node)
    THEN IF ~has_children(T, node) THEN __remove_leaf(T, node)
         ELSE Raise(T, "Exception")
    ELSE
    LET left_child_node == T.heap[node].left
        right_child_node == T.heap[node].right
    IN
    IF has_children(T, right_child_node) \/ has_children(T, left_child_node)
    THEN Raise(T, "Exception")
    ELSE IF is_node_red(T, child_node)
    THEN [T EXCEPT !.heap[node].key = T.heap[child_node].key,
                   !.heap[node].values = T.heap[child_node].values]
    ELSE __remove_black_node(T, node)

\* __remove(node)
__remove(T, node) ==
    LET child_node == get_child_node(T, node)
    IN
    IF NodeEq(T, node, T.root)
    THEN IF ~NodeEq(T, child_node, NIL_NODE)
         THEN LET T1 == [T EXCEPT !.root = child_node]
                  T2 == SetF(T1, T1.root, "parent", None)
              IN  SetF(T2, T2.root, "color", black)
         ELSE [T EXCEPT !.root = None]
    ELSE IF is_node_red(T, node)
    THEN IF ~has_children(T, node) THEN __remove_leaf(T, node)
         ELSE Raise(T, "Exception")
    ELSE
    LET left_child_node == T.heap[node].left
        right_child_node == T.heap[node].right
    IN
    IF has_children(T, right_child_node) \/ has_children(T, left_child_node)
    THEN Raise(T, "Exception")
    ELSE IF is_node_red(T, child_node)
    THEN [T EXCEPT !.heap[node].key = T.heap[child_node].key,
                   !.heap[node].values = T.heap[child_node].values,
                   !.heap[node].left = T.heap[child_node].left,
                   !.heap[node].right = T.heap[child_node].right]
    ELSE __remove_black_node(T, node)

\* remove_node(node)
remove_node(T, node) ==
    IF get_children_count(T, node) = 2
    THEN LET successor == get_minimum_node(T, T.heap[node].right, 1)
         IN  IF successor = None THEN Raise(T, "RecursionError")
             ELSE __remove([T EXCEPT
                      !.heap[node].key = T.heap[successor].key,
                      !.heap[node].values = T.heap[successor].values],
                      successor)
    ELSE __remove(T, node)

\* remove_key() that looks the key up with to_nil set, as add() does
remove_key_to_nil(T, key) ==
    LET found == find_node(T, key, TRUE)
    IN  IF found.kind = "object" THEN Raise(T, "AttributeError")
        ELSE IF found.kind \in {"RecursionError", "TypeError"}
        THEN Raise(T, found.kind)
        ELSE IF found.node = None THEN T
        ELSE remove_node(T, found.node)

\* remove_key(key): unpacking the bare NIL_NODE object find_node gives for
\* an empty tree iterates it, and RBNode.__iter__ reads self._left._color
\* with self._left being None
remove_key(T, key) ==
    LET found == find_node(T, key, FALSE)
    IN  IF found.kind = "object" THEN Raise(T, "AttributeError")
        ELSE IF found.kind \in {"RecursionError", "TypeError"}
        THEN Raise(T, found.kind)
        ELSE IF found.node = None THEN T
        ELSE remove_node(T, found.node)

\* remove_value(key, value): node is None when the key is absent, and
\* None has no _values
remove_value(T, key, value) ==
    LET found == find_node(T, key, FALSE)
    IN  IF found.kind = "object" THEN Raise(T, "AttributeError")
        ELSE IF found.kind \in {"RecursionError", "TypeError"}
        THEN Raise(T, found.kind)
        ELSE IF found.node = None THEN Raise(T, "AttributeError")
        ELSE
        LET node == found.node
            vs == T.heap[node].values
            hit == {i \in 1..Len(vs) : vs[i] = value}
            first == CHOOSE i \in hit : \A j \in hit : i <= j
            T1 == IF hit # {}
                  THEN [T EXCEPT !.heap[node].values =
                           SubSeq(vs, 1, first - 1)
                               \o SubSeq(vs, first + 1, Len(vs))]
                  ELSE T
        IN  IF Len(T1.heap[node].values) = 0 THEN remove_node(T1, node)
            ELSE T1


\* ------------------------------------------------------------ traversals
\* RBNode.__repr__: the colour, the key and the bucket
RBNode_repr(T, n) ==
    [color |-> T.heap[n].color, key |-> T.heap[n].key,
     values |-> T.heap[n].values]

\* list(n.__iter__()) for node n: the list of what the generator yields, or
\* the exception it ends with.  A child is entered when its colour is not
\* NIL; a child that is None has no _color; where the child links form a
\* cycle the descent never ends and Python raises RecursionError (depth
\* counts the frames: a descent deeper than the number of cells has met the
\* same node twice).
RECURSIVE RBNode_iter(_, _, _)
RBNode_iter(T, n, depth) ==
    IF depth > MaxNodes + 1 THEN [exc |-> "RecursionError", ret |-> <<>>]
    ELSE IF T.heap[n].left = None
    THEN [exc |-> "AttributeError", ret |-> <<>>]
    ELSE
    LET l == IF T.heap[T.heap[n].left].color # NIL
             THEN RBNode_iter(T, T.heap[n].left, depth + 1)
             ELSE [exc |-> NoExc, ret |-> <<>>]
    IN
    IF l.exc # NoExc THEN l
    ELSE IF T.heap[n].right = None
    THEN [exc |-> "AttributeError", ret |-> <<>>]
    ELSE
    LET r == IF T.heap[T.heap[n].right].color # NIL
             THEN RBNode_iter(T, T.heap[n].right, depth + 1)
             ELSE [exc |-> NoExc, ret |-> <<>>]
    IN
    IF r.exc # NoExc THEN r
    ELSE [exc |-> NoExc, ret |-> l.ret \o <<RBNode_repr(T, n)>> \o r.ret]

\* list(tree), RedBlackTree.__iter__: nothing without a root
RedBlackTree_iter(T) ==
    IF T.root = None THEN [exc |-> NoExc, ret |-> <<>>]
    ELSE RBNode_iter(T, T.root, 1)

\* in_order(node): the list returned, or the RecursionError of a descent
\* that never ends.  "if node" is false for None only, every RBNode object
\* is true, NIL_NODE too, whose _left and _right are None.
RECURSIVE in_order(_, _, _)
in_order(T, node, depth) ==
    IF node = None THEN [exc |-> NoExc, ret |-> <<>>]
    ELSE IF depth > MaxNodes + 2
    THEN [exc |-> "RecursionError", ret |-> <<>>]
    ELSE
    LET l == in_order(T, T.heap[node].left, depth + 1)
    IN
    IF l.exc # NoExc THEN l
    ELSE
    LET r == in_order(T, T.heap[node].right, depth + 1)
    IN
    IF r.exc # NoExc THEN r
    ELSE [exc |-> NoExc,
          ret |-> l.ret
                    \o <<[key |-> T.heap[node].key,
                          values |-> T.heap[node].values,
                          parent |-> T.heap[node].parent,
                          color |-> T.heap[node].color]>>
                    \o r.ret]

\* is_set_correctly(node): the result is the returned tuple, or the
\* exception raised.  The last statement returns a tuple of one element (the
\* line after it is a separate expression that is never reached), so
\* unpacking the result of a recursive call into two names raises ValueError
\* unless that call returned early.  The right subtree is visited first.
RECURSIVE is_set_correctly(_, _, _)
is_set_correctly(T, node, depth) ==
    IF node = None THEN [exc |-> NoExc, ret |-> <<TRUE, 1>>]
    ELSE IF depth > MaxNodes + 2
    THEN [exc |-> "RecursionError", ret |-> <<>>]
    ELSE IF get_parent_node(T, node) = None /\ is_node_red(T, node)
    THEN [exc |-> NoExc, ret |-> <<FALSE, 0>>]
    ELSE IF /\ is_node_red(T, node)
            /\ \/ (T.heap[node].left # None
                    /\ is_node_red(T, T.heap[node].left))
               \/ (T.heap[node].right # None
                    /\ is_node_red(T, T.heap[node].right))
    THEN [exc |-> NoExc, ret |-> <<FALSE, -1>>]
    ELSE LET r == is_set_correctly(T, T.heap[node].right, depth + 1)
             l == is_set_correctly(T, T.heap[node].left, depth + 1)
         IN  IF r.exc # NoExc THEN r
             ELSE IF Len(r.ret) # 2
             THEN [exc |-> "ValueError", ret |-> <<>>]
             ELSE IF l.exc # NoExc THEN l
             ELSE IF Len(l.ret) # 2
             THEN [exc |-> "ValueError", ret |-> <<>>]
             ELSE [exc |-> NoExc,
                   ret |-> << r.ret[1] /\ l.ret[1]
                                 /\ r.ret[2] = l.ret[2] >>]

\* update_key(key, value, new_key): remove_value, then add
update_key(T, key, value, new_key) ==
    LET T1 == remove_value(T, key, value)
    IN  IF T1.exc # NoExc THEN T1 ELSE add(T1, new_key, value)

\* ------------------------------------------------------------- the state
VARIABLES
    root,   \* RedBlackTree._root
    heap,   \* the RBNode objects, NIL_NODE among them
    exc,    \* the exception the last call ended with, NoExc if it returned
    ret,    \* what the last call returned (None for add and the removals)
    call,   \* the last call: its name, its arguments, and whether a node
            \* held the key when it was made
    shadow  \* history: for every key the values added under it and not
            \* removed since, in the order of the add() calls

vars == <<root, heap, exc, ret, call, shadow>>

Tree == [root |-> root, heap |-> heap, exc |-> NoExc]

\* Where an object lies in memory is not part of the program's state: after
\* a call the objects of the tree (those a walk from the root through _left,
\* _right and _parent meets) are named 1, 2, ... in the order of that walk
\* and the other cells are free.  NIL_NODE._parent, which rotate() sets, may
\* be left pointing at an object that is no longer in the tree: that
\* reference is kept as Gone.
RECURSIVE Walk(_, _, _)
Walk(T, stack, order) ==
    IF stack = <<>> THEN order
    ELSE LET c == Head(stack)
         IN  IF \/ c = None
                \/ c = NIL_NODE
                \/ \E i \in 1..Len(order) : order[i] = c
             THEN Walk(T, Tail(stack), order)
             ELSE Walk(T, <<T.heap[c].left, T.heap[c].right,
                            T.heap[c].parent>> \o Tail(stack),
                       Append(order, c))

Normalize(T) ==
    LET order == Walk(T, <<T.root>>, <<>>)
        name(c) == IF c = None \/ c = NIL_NODE THEN c
                   ELSE IF \E i \in 1..Len(order) : order[i] = c
                   THEN CHOOSE i \in 1..Len(order) : order[i] = c
                   ELSE Gone
        move(cell) == [cell EXCEPT !.parent = name(@), !.left = name(@),
                                   !.right = name(@)]
    IN  [root |-> name(T.root),
         heap |-> [i \in Cells |->
                     IF i = NIL_NODE THEN move(T.heap[NIL_NODE])
                     ELSE IF i = Gone THEN GoneCell
                     ELSE IF i <= Len(order) THEN move(T.heap[order[i]])
                     ELSE FreeCell],
         exc |-> T.exc]

\* the history of a key under each call
AbsAdd(s, k, v) ==
    IF k \in DOMAIN s THEN [s EXCEPT ![k] = Append(@, v)] ELSE s

AbsRemoveKey(s, k) == [s EXCEPT ![k] = <<>>]

AbsRemoveValue(s, k, v) ==
    LET hit == {i \in 1..Len(s[k]) : s[k][i] = v}
        first == CHOOSE i \in hit : \A j \in hit : i <= j
    IN  IF hit = {} THEN s
        ELSE [s EXCEPT ![k] = SubSeq(@, 1, first - 1)
                                  \o SubSeq(@, first + 1, Len(@))]

AbsUpdateKey(s, k, v, nk) ==
    IF nk \in DOMAIN s /\ s[k] # <<>>
    THEN AbsAdd(AbsRemoveValue(s, k, v), nk, v)
    ELSE s

\* RedBlackTree(): no root; the class attribute NIL_NODE exists
Init ==
    /\ root = None
    /\ heap = [c \in Cells |-> IF c = NIL_NODE THEN NilCell
                             ELSE IF c = Gone THEN GoneCell ELSE FreeCell]
    /\ exc = NoExc
    /\ ret = None
    /\ call = [op |-> "init", key |-> None, value |-> None, held |-> FALSE]
    /\ shadow = [k \in AllKeys |-> <<>>]

\* the objects of the tree: the cells in use
InUse == {c \in Refs : heap[c].color # "free"}

HasFreeCell == InUse # Refs

\* the objects that hold key k
Holders(k) == {n \in InUse : heap[n].key = k}

\* The heap is a tree: the sentinel is as it was made, the root has no
\* parent, and every other object is the child of exactly one object, the
\* one its _parent names.
Proper ==
    /\ heap[NIL_NODE].color = NIL
    /\ root # None => heap[root].parent = None
    /\ \A c \in InUse :
          /\ heap[c].color \in {black, RED}
          /\ heap[c].left \in InUse \cup {NIL_NODE}
          /\ heap[c].right \in InUse \cup {NIL_NODE}
          /\ heap[c].left = heap[c].right => heap[c].left = NIL_NODE
          /\ IF c = root
             THEN \A p \in InUse : heap[p].left # c /\ heap[p].right # c
             ELSE /\ heap[c].parent \in InUse
                  /\ \A p \in InUse :
                        (heap[p].left = c \/ heap[p].right = c)
                            <=> p = heap[c].parent

\* A call that raised ends the run: nothing in the module catches it.  Calls
\* are followed from heaps that are trees; the state a call leaves when it
\* breaks the tree is kept, what the methods do from there is not modelled.
Running == exc = NoExc /\ Proper

Done(T, r, c, s) ==
    /\ root' = Normalize(T).root
    /\ heap' = Normalize(T).heap
    /\ exc' = T.exc
    /\ ret' = r
    /\ call' = c
    /\ shadow' = s

Add(k, v, cap) ==
    /\ Running
    /\ HasFreeCell
    /\ \A n \in Holders(k) : Len(heap[n].values) < cap
    /\ Done(add(Tree, k, v), None,
            [op |-> "add", key |-> k, value |-> v, held |-> Holders(k) # {}],
            AbsAdd(shadow, k, v))

RemoveKey(k) ==
    /\ Running
    /\ Done(remove_key(Tree, k), None,
            [op |-> "remove_key", key |-> k, value |-> None,
             held |-> Holders(k) # {}],
            AbsRemoveKey(shadow, k))

RemoveValue(k, v) ==
    /\ Running
    /\ Done(remove_value(Tree, k, v), None,
            [op |-> "remove_value", key |-> k, value |-> v,
             held |-> Holders(k) # {}],
            AbsRemoveValue(shadow, k, v))

Contains(k) ==
    /\ Running
    /\ LET r == contains(Tree, k)
       IN  Done([Tree EXCEPT !.exc = r.exc], r.ret,
                [op |-> "contains", key |-> k, value |-> None,
                 held |-> Holders(k) # {}],
                shadow)

UpdateKey(k, v, nk) ==
    /\ Running
    /\ HasFreeCell
    /\ \A n \in Holders(nk) : Len(heap[n].values) < MaxBucket
    /\ Done(update_key(Tree, k, v, nk), None,
            [op |-> "update_key", key |-> k, value |-> v,
             held |-> Holders(k) # {}, new_key |-> nk],
            AbsUpdateKey(shadow, k, v, nk))

\* Any calls on keys 1..MaxKey; the value kept under a key is the key, and
\* remove_value is called with that value and with one no bucket holds.
\* add() is also called with None, a key the validator rejects.
Next ==
    \/ \E k \in Keys : Add(k, k, 1)
    \/ Add(None, None, 1)
    \/ \E k \in Keys : RemoveKey(k)
    \/ \E k \in Keys : \E v \in {k, None} : RemoveValue(k, v)
    \/ \E k \in Keys : Contains(k)

Spec == Init /\ [][Next]_vars

\* add() calls only, of distinct keys 1..MaxAddKey in any order
NextAdd == \E k \in AddKeys : Add(k, k, 1)

SpecAdd == Init /\ [][NextAdd]_vars

\* add() and remove_value() calls on buckets of up to MaxBucket values, the
\* values of one bucket being distinct
NextBucket ==
    \/ \E k \in BucketKeys, v \in Values :
          /\ \A n \in Holders(k) :
                \A i \in 1..Len(heap[n].values) : heap[n].values[i] # v
          /\ Add(k, v, MaxBucket)
    \/ \E k \in BucketKeys, v \in Values : RemoveValue(k, v)

SpecBucket == Init /\ [][NextBucket]_vars

\* add() and remove_key() calls only, add(None, None) among them
NextKeys ==
    \/ \E k \in Keys : Add(k, k, 1)
    \/ Add(None, None, 1)
    \/ \E k \in Keys : RemoveKey(k)

SpecKeys == Init /\ [][NextKeys]_vars

\* the round trip: distinct keys are added, then the keys in the tree are
\* removed one by one
NextRoundTrip ==
    \/ /\ call.op \in {"init", "add"}
       /\ \E k \in Keys : Add(k, k, 1)
    \/ /\ call.op \in {"add", "remove_key"}
       /\ \E k \in Keys : Holders(k) # {} /\ RemoveKey(k)

SpecRoundTrip == Init /\ [][NextRoundTrip]_vars

\* add() and update_key() calls on keys 1..MaxUpdateKey: a key is added with
\* itself as value, and update_key moves a value of the key's bucket (the
\* key itself when no node holds the key) to a key of 1..MaxUpdateKey or to
\* None, a key the validator rejects
NextUpdate ==
    \/ \E k \in UpdateKeys : Add(k, k, 1)
    \/ \E k \in UpdateKeys, nk \in UpdateKeys \cup {None} :
          \E v \in IF Holders(k) = {} THEN {k}
                   ELSE UNION {{heap[n].values[i] : i \in 1..Len(heap[n].values)}
                               : n \in Holders(k)} :
              UpdateKey(k, v, nk)

SpecUpdate == Init /\ [][NextUpdate]_vars

\* A client calls the public method rotate(direction, node, parent_node,
\* grandparent_node, to_recolor).  call.key and call.value are the keys of
\* parent_node and grandparent_node, call.node is the key of node (None when
\* node is None).
Rotate(direction, node, parent_node, grandparent_node, to_recolor) ==
    /\ Running
    /\ Done(rotate(Tree, direction, node, parent_node, grandparent_node,
                   to_recolor),
            None,
            [op |-> "rotate", key |-> heap[parent_node].key,
             value |-> heap[grandparent_node].key, held |-> TRUE,
             direction |-> direction,
             node |-> IF node = None THEN None ELSE heap[node].key,
             to_recolor |-> to_recolor],
            shadow)

\* the real children of object n
RealChildren(n) == {heap[n].left, heap[n].right} \ {NIL_NODE}

\* add() calls of keys 1..MaxRotateKey and rotate() calls in either
\* direction, with and without recolouring, on an object of the tree as
\* grandparent_node, a real child of it as parent_node, and a real child of
\* that one, or None as the balancers pass it, as node
NextRotate ==
    \/ \E k \in RotateKeys : Add(k, k, 1)
    \/ \E direction \in {LEFT, RIGHT}, to_recolor \in BOOLEAN :
          \E grandparent_node \in InUse :
             \E parent_node \in RealChildren(grandparent_node) :
                \E node \in RealChildren(parent_node) \cup {None} :
                   Rotate(direction, node, parent_node, grandparent_node,
                          to_recolor)

SpecRotate == Init /\ [][NextRotate]_vars

\* add() calls of absent keys 1..MaxBalanceKey, taken one run of
\* try_rebalance at a time.  While the balancer of a call is at work, call.op
\* is "try_rebalance", call.key is the key of the node its next run is for
\* and call.value is the key being added; root and heap are the tree between
\* two runs.
Balancing == call.op = "try_rebalance"

\* add(k, k) up to its call of try_rebalance; on the empty tree, all of it
AddStart(k) ==
    /\ ~Balancing
    /\ Running
    /\ HasFreeCell
    /\ Holders(k) = {}
    /\ IF root = None
       THEN Done(add(Tree, k, k), None,
                 [op |-> "add", key |-> k, value |-> k, held |-> FALSE],
                 AbsAdd(shadow, k, k))
       ELSE Done(add_new_node(Tree, find_node(Tree, k, TRUE).node,
                              find_node(Tree, k, TRUE).dir, k, k),
                 None,
                 [op |-> "try_rebalance", key |-> k, value |-> k,
                  held |-> FALSE],
                 AbsAdd(shadow, k, k))

\* one run of try_rebalance; after the last one add() returns
TryRebalance ==
    /\ Balancing
    /\ Running
    /\ LET node == CHOOSE c \in Holders(call.key) : TRUE
           step == try_rebalance_step(Tree, node)
       IN  Done(step.tree, None,
                IF step.next = None
                THEN [op |-> "add", key |-> call.value, value |-> call.value,
                      held |-> FALSE]
                ELSE [op |-> "try_rebalance", key |-> heap[step.next].key,
                      value |-> call.value, held |-> FALSE],
                shadow)

NextBalance ==
    \/ \E k \in BalanceKeys : AddStart(k)
    \/ TryRebalance

\* what TryRebalance does to call: it is enabled exactly when TryRebalance
\* is, and a step of NextBalance from a state with the balancer at work is a
\* step of TryRebalance and changes call
TryRebalanceRuns ==
    /\ Balancing
    /\ Running
    /\ call' \in {[op |-> o, key |-> k, value |-> call.value, held |-> FALSE]
                   : o \in {"add", "try_rebalance"}, k \in BalanceKeys}

\* a call that has started runs on: Python runs it to its end before the
\* caller can do anything else.  The fairness is weak fairness of the runs
\* of try_rebalance, stated on call alone.
SpecBalance == Init /\ [][NextBalance]_vars /\ WF_call(TryRebalanceRuns)

\* ------------------------------------------------------------ properties
\* A walk that follows a cycle of child links is cut Fuel levels down; no
\* path of a tree of MaxNodes objects is that long.
Fuel == MaxNodes + 1

\* the real nodes below and at n, left subtree first, then n, then the right
\* subtree
RECURSIVE InOrder(_, _, _)
InOrder(T, n, fuel) ==
    IF n = None \/ n = NIL_NODE \/ fuel = 0 THEN <<>>
    ELSE InOrder(T, T.heap[n].left, fuel - 1) \o <<n>>
             \o InOrder(T, T.heap[n].right, fuel - 1)

InOrderKeys(T) ==
    LET walk == InOrder(T, T.root, Fuel)
    IN  [i \in 1..Len(walk) |-> T.heap[walk[i]].key]

\* how often key k comes in the in-order walk
Count(T, k) ==
    LET ks == InOrderKeys(T) IN Cardinality({i \in 1..Len(ks) : ks[i] = k})

NonDecreasing(ks) ==
    \A i \in 1..(Len(ks) - 1) : ~(ks[i + 1] < ks[i])

\* the numbers of BLACK nodes on the paths from n down to the sentinel; -1
\* for a path that does not end at the sentinel
RECURSIVE BlackHeights(_, _, _)
BlackHeights(T, n, fuel) ==
    IF n = NIL_NODE THEN {0}
    ELSE IF n = None \/ fuel = 0 THEN {-1}
    ELSE LET below == BlackHeights(T, T.heap[n].left, fuel - 1)
                          \cup BlackHeights(T, T.heap[n].right, fuel - 1)
             own == IF T.heap[n].color = black THEN 1 ELSE 0
         IN  {IF b = -1 THEN -1 ELSE b + own : b \in below}

RootIsBlack(T) == T.root = None \/ T.heap[T.root].color = black

NoRedRed(T) ==
    LET walk == InOrder(T, T.root, Fuel)
    IN  \A i \in 1..Len(walk) :
            LET n == walk[i]
            IN  T.heap[n].color = RED =>
                    /\ get_node_color(T, T.heap[n].left) # RED
                    /\ get_node_color(T, T.heap[n].right) # RED

EqualBlackHeight(T) ==
    \/ T.root = None
    \/ /\ Cardinality(BlackHeights(T, T.root, Fuel)) = 1
       /\ -1 \notin BlackHeights(T, T.root, Fuel)

RedBlack(T) == RootIsBlack(T) /\ NoRedRed(T) /\ EqualBlackHeight(T)

\* the number of real nodes on the longest path from n down to a leaf
RECURSIVE Height(_, _, _)
Height(T, n, fuel) ==
    IF n = None \/ n = NIL_NODE \/ fuel = 0 THEN 0
    ELSE 1 + Max(Height(T, T.heap[n].left, fuel - 1),
                 Height(T, T.heap[n].right, fuel - 1))

\* the tree after add(1, 1), add(2, 2), ..., add(n, n) on an empty tree
RECURSIVE AscendingTree(_)
AscendingTree(n) ==
    IF n = 0
    THEN [root |-> None,
          heap |-> [c \in Cells |-> IF c = NIL_NODE THEN NilCell
                                   ELSE IF c = Gone THEN GoneCell
                                   ELSE FreeCell],
          exc |-> NoExc]
    ELSE Normalize(add(AscendingTree(n - 1), n, n))

IsAscendingTree(n) ==
    /\ exc = NoExc
    /\ root = AscendingTree(n).root
    /\ heap = AscendingTree(n).heap

\* the bucket kept under key k by the nodes of the in-order walk, <<>> when
\* no node holds k
Bucket(T, k) ==
    LET walk == InOrder(T, T.root, Fuel)
        at == {i \in 1..Len(walk) : T.heap[walk[i]].key = k}
    IN  IF at = {} THEN <<>> ELSE T.heap[walk[CHOOSE i \in at : TRUE]].values

\* ---------------------------------------------------------------- claims
\* C1: after every completed call of a run of add() and remove_key() calls
\* the root is BLACK or there is none, no RED node has a RED child, and all
\* paths from the root to the sentinel pass the same number of BLACK nodes.
C1_RedBlackAfterEveryCall == exc = NoExc => RedBlack(Tree)

\* C2: after every completed call of a run of add(), remove_key() and
\* remove_value() calls the in-order walk from the root lists the keys in
\* non-decreasing order.
C2_InOrderNonDecreasing == exc = NoExc => NonDecreasing(InOrderKeys(Tree))

\* C3: when distinct keys have been added and are then removed one by one
\* with remove_key(), every removal completes, and the removal of the last
\* key leaves no root.
C3_RoundTripEndsEmpty ==
    call.op = "remove_key" =>
        /\ exc = NoExc
        /\ (\A k \in Keys : shadow[k] = <<>>) => root = None

\* C4: after every completed call the tree holds the history's map: a key
\* with values left is held by exactly one node whose bucket is those
\* values in the order they were added, contains() is true for it, and a
\* key with no values left is held by no node and contains() is false.
C4_RefinesMap ==
    exc = NoExc =>
        \A k \in Keys :
            /\ Cardinality(Holders(k)) = (IF shadow[k] # <<>> THEN 1 ELSE 0)
            /\ Count(Tree, k) = (IF shadow[k] # <<>> THEN 1 ELSE 0)
            /\ \A n \in Holders(k) : heap[n].values = shadow[k]
            /\ root # None =>
                   contains(Tree, k) = [exc |-> NoExc,
                                        ret |-> shadow[k] # <<>>]

\* C5: remove_key(k) for a key k that no node holds leaves the root and
\* every object (links, colours, keys, buckets) as they were, in the empty
\* tree and in every other tree.
C5_AbsentKeyRemovalChangesNothing ==
    Running =>
        \A k \in Keys :
            Holders(k) = {} =>
                /\ remove_key(Tree, k).root = root
                /\ remove_key(Tree, k).heap = heap

\* a remove_key() of a key that no node of a non-empty tree held returned
C5_AbsentKeyRemoved ==
    /\ call.op = "remove_key"
    /\ ~call.held
    /\ exc = NoExc
    /\ Cardinality(InUse) >= 3

\* C6: add(k, v2) on a key whose bucket is [v1] makes the bucket [v1, v2]
\* in the same node and makes no node; on a bucket [v1, v2],
\* remove_value(k, v1) leaves the node in the tree with bucket [v2], and a
\* further remove_value(k, v2) completes and takes k, and no other key, out
\* of the tree.
C6_MultiValueBucket ==
    Running =>
        \A n \in InUse :
            LET k == heap[n].key
                vs == heap[n].values
            IN  /\ Len(vs) = 1 =>
                       \A v2 \in Values \ {vs[1]} :
                           LET T1 == add(Tree, k, v2)
                           IN  /\ T1.exc = NoExc
                               /\ T1.heap[n].values = <<vs[1], v2>>
                               /\ Len(InOrderKeys(T1)) = Cardinality(InUse)
                /\ (Len(vs) = 2 /\ vs[1] # vs[2]) =>
                       LET T1 == remove_value(Tree, k, vs[1])
                           T2 == remove_value(T1, k, vs[2])
                       IN  /\ T1.exc = NoExc
                           /\ T1.heap[n].values = <<vs[2]>>
                           /\ Count(T1, k) = 1
                           /\ T2.exc = NoExc
                           /\ \A j \in BucketKeys :
                                  Count(T2, j) = (IF j # k /\ Holders(j) # {}
                                                  THEN 1 ELSE 0)

\* C7: remove_key() of the only key of a one-node tree leaves no root, and
\* on that empty tree contains(j) returns False for every key j.
C7_SoleKeyRemoval ==
    (Running /\ Cardinality(InUse) = 1) =>
        LET T2 == remove_key(Tree, heap[root].key)
        IN  /\ T2.exc = NoExc
            /\ T2.root = None
            /\ \A j \in Keys :
                   contains(T2, j) = [exc |-> NoExc, ret |-> FALSE]

\* C8: remove_key() of a key whose node has two real children completes;
\* the node keeps its colour and takes the key and the bucket of the
\* minimum node of its right subtree; afterwards the removed key is gone,
\* every other key is in the tree exactly once, and the red-black
\* invariants hold.
C8_TwoChildrenSplice ==
    Running =>
        \A n \in InUse :
            get_children_count(Tree, n) = 2 =>
                LET k == heap[n].key
                    successor == get_minimum_node(Tree, heap[n].right, 1)
                    T2 == remove_key(Tree, k)
                IN  /\ T2.exc = NoExc
                    /\ T2.heap[n].color = heap[n].color
                    /\ T2.heap[n].key = heap[successor].key
                    /\ T2.heap[n].values = heap[successor].values
                    /\ \A j \in Keys :
                           Count(T2, j) = (IF j # k /\ Holders(j) # {}
                                           THEN 1 ELSE 0)
                    /\ RedBlack(T2)

\* C9: after three distinct keys have been added to an empty tree, in any
\* order, the root holds the middle key and is BLACK, and its children hold
\* the smallest and the largest key and are RED leaves with the sentinel
\* for both children.
C9_ThreeKeys ==
    (exc = NoExc /\ Cardinality(InUse) = 3) =>
        LET l == heap[root].left
            r == heap[root].right
        IN  /\ heap[root].color = black
            /\ l \in InUse /\ r \in InUse
            /\ heap[l].color = RED /\ heap[r].color = RED
            /\ heap[l].key < heap[root].key /\ heap[root].key < heap[r].key
            /\ heap[l].left = NIL_NODE /\ heap[l].right = NIL_NODE
            /\ heap[r].left = NIL_NODE /\ heap[r].right = NIL_NODE
            /\ heap[l].parent = root /\ heap[r].parent = root

\* three keys were added in ascending order, the last one rotating the tree
C9_ThreeKeysAdded ==
    /\ Cardinality(InUse) = 3
    /\ call = [op |-> "add", key |-> 3, value |-> 3, held |-> FALSE]
    /\ heap[root].key = 2
    /\ heap[heap[root].left].key = 1
    /\ heap[NIL_NODE].parent # None

\* C10 as stated: while 1, 2, ..., 7 are added in ascending order the height
\* is at most 3 after each add.
C10_HeightAtMost3 ==
    \A n \in 0..7 : IsAscendingTree(n) => Height(Tree, root, Fuel) <= 3

\* C10, amended: while 1, 2, ..., 7 are added in ascending order the height
\* is at most 4 after each add.
C10_HeightAtMost4 ==
    \A n \in 0..7 : IsAscendingTree(n) => Height(Tree, root, Fuel) <= 4

\* all of 1, ..., 7 were added in ascending order and the height is 4
C10_SevenAdded ==
    /\ IsAscendingTree(7)
    /\ call.op = "add" /\ call.key = 7
    /\ Height(Tree, root, Fuel) = 4

\* C11: add() with a key the validator rejects raises, and leaves the root
\* and every object (links, colours, keys, buckets) as they were; no node
\* is made.
C11_RejectedKeyChangesNothing ==
    Running =>
        \A v \in Keys \cup {None} :
            /\ add(Tree, None, v).exc = "Exception"
            /\ add(Tree, None, v).root = root
            /\ add(Tree, None, v).heap = heap

\* add(None, None) was called on a tree of three keys or more and raised
C11_RejectedKeyAdded ==
    /\ call = [op |-> "add", key |-> None, value |-> None, held |-> FALSE]
    /\ exc = "Exception"
    /\ Cardinality(InUse) >= 3

\* C12: update_key(k, v, nk) on a key k in the tree and a value v of its
\* bucket either returns, and then one occurrence of v has left k's bucket
\* and v is the last value of nk's bucket, the other buckets being as they
\* were, or raises, and then the root and every object are as before the
\* call.
C12_UpdateKeyAtomic ==
    Running =>
        \A k \in UpdateKeys, nk \in UpdateKeys \cup {None} :
            \A v \in {Bucket(Tree, k)[i] : i \in 1..Len(Bucket(Tree, k))} :
                LET T2 == update_key(Tree, k, v, nk)
                    before == [j \in UpdateKeys |-> Bucket(Tree, j)]
                    moved == AbsAdd(AbsRemoveValue(before, k, v), nk, v)
                IN  IF T2.exc = NoExc
                    THEN \A j \in UpdateKeys : Bucket(T2, j) = moved[j]
                    ELSE T2.root = root /\ T2.heap = heap

\* C13: for a key k that no node holds, remove_key(k) and remove_value(k, v)
\* end the same way (both return, or both raise the same exception), and
\* each ends on this tree as it does on the empty tree.
C13_OneAbsentKeyPolicy ==
    Running =>
        \A k \in Keys :
            Holders(k) = {} =>
                \A v \in {k, None} :
                    /\ remove_key(Tree, k).exc = remove_value(Tree, k, v).exc
                    /\ remove_key(Tree, k).exc
                           = remove_key(AscendingTree(0), k).exc
                    /\ remove_value(Tree, k, v).exc
                           = remove_value(AscendingTree(0), k, v).exc

\* C14: iterating the tree and in_order(root) both give one entry for
\* every real node, in the order of the in-order walk, which is ascending
\* in the keys, and no entry for the sentinel; on the empty tree they give
\* nothing.
C14_TraversalsSkipSentinels ==
    Running =>
        LET walk == InOrder(Tree, root, Fuel)
        IN  /\ \A i \in 1..(Len(walk) - 1) :
                   heap[walk[i]].key < heap[walk[i + 1]].key
            /\ RedBlackTree_iter(Tree).exc = NoExc
            /\ RedBlackTree_iter(Tree).ret
                   = [i \in 1..Len(walk) |-> RBNode_repr(Tree, walk[i])]
            /\ in_order(Tree, root, 1).exc = NoExc
            /\ in_order(Tree, root, 1).ret
                   = [i \in 1..Len(walk) |->
                         [key |-> heap[walk[i]].key,
                          values |-> heap[walk[i]].values,
                          parent |-> heap[walk[i]].parent,
                          color |-> heap[walk[i]].color]]

\* C15: is_set_correctly(root) completes on every tree and returns a pair:
\* its first part is true exactly when the root is not RED, no RED node has
\* a RED child and all paths hold the same number of BLACK nodes; its
\* second part is the black-height, the sentinel counted as one.
C15_ValidationReturnsPair ==
    Running =>
        LET r == is_set_correctly(Tree, root, 1)
        IN  /\ r.exc = NoExc
            /\ Len(r.ret) = 2
            /\ r.ret[1] = RedBlack(Tree)
            /\ RedBlack(Tree) =>
                   r.ret[2] = IF root = None THEN 1
                              ELSE 1 + CHOOSE b \in BlackHeights(Tree, root, Fuel) : TRUE

\* C16: from a tree built by add() calls alone, whose keys ascend strictly
\* in the in-order walk and which keeps the three red-black invariants,
\* add(k, v) of a key k that is not in the tree completes and gives a tree
\* that again keeps the order and the three invariants, and holds k besides
\* the keys it held.
C16_AddKeepsTreeValid ==
    (Running /\ RedBlack(Tree) /\ NonDecreasing(InOrderKeys(Tree))) =>
        \A k \in AddKeys : Holders(k) = {} =>
            LET T2 == add(Tree, k, k)
                ks == InOrderKeys(T2)
            IN  /\ T2.exc = NoExc
                /\ RedBlack(T2)
                /\ \A i \in 1..(Len(ks) - 1) : ks[i] < ks[i + 1]
                /\ {ks[i] : i \in 1..Len(ks)}
                       = {heap[c].key : c \in InUse} \cup {k}

\* an add() has ended whose new node the balancer lifted over its parent and
\* its grandparent (the zigzag), in a tree of five nodes or more that keeps
\* the invariants
C16_ZigzagAdded ==
    /\ call.op = "add"
    /\ Running
    /\ RedBlack(Tree)
    /\ Cardinality(InUse) >= 5
    /\ \E c \in InUse :
          /\ heap[c].key = call.key
          /\ heap[c].left # NIL_NODE
          /\ heap[c].right # NIL_NODE

\* the side of its parent that node n hangs on
SideOf(T, n) ==
    IF T.heap[T.heap[n].parent].left = n THEN LEFT ELSE RIGHT

\* the child of node p on side d
ChildOn(T, p, d) == IF d = LEFT THEN T.heap[p].left ELSE T.heap[p].right

\* the keys ascend in the in-order walk and the three invariants hold
ValidTree(T) == RedBlack(T) /\ NonDecreasing(InOrderKeys(T))

\* C17: in a valid tree, for a BLACK node that is not the root, whose sibling
\* is RED, whose parent is BLACK and whose sibling's children are not RED, the
\* step of case 2 puts the sibling in the parent's place (under the old
\* grandparent on the same side, or as the root) and colours it BLACK, makes
\* the parent the sibling's child and colours it RED, keeps the node the
\* parent's child on its side with a BLACK new sibling, and keeps the keys
\* of the in-order walk.
C17_Case2RotatesSiblingUp ==
    (Running /\ ValidTree(Tree)) =>
        \A n \in InUse :
            (/\ n # root
             /\ is_node_black(Tree, n)
             /\ is_node_red(Tree, get_sibling_node(Tree, n).node)
             /\ is_node_black(Tree, heap[n].parent)
             /\ is_node_not_red(Tree, heap[get_sibling_node(Tree, n).node].left)
             /\ is_node_not_red(Tree, heap[get_sibling_node(Tree, n).node].right))
            =>
            LET p == heap[n].parent
                s == get_sibling_node(Tree, n).node
                g == heap[p].parent
                T2 == __case_2_step(Tree, n)
            IN  /\ T2.exc = NoExc
                /\ T2.heap[s].parent = g
                /\ IF g = None THEN T2.root = s
                   ELSE ChildOn(T2, g, SideOf(Tree, p)) = s
                /\ T2.heap[s].color = black
                /\ T2.heap[p].parent = s
                /\ ChildOn(T2, s, SideOf(Tree, n)) = p
                /\ T2.heap[p].color = RED
                /\ T2.heap[n].parent = p
                /\ ChildOn(T2, p, SideOf(Tree, n)) = n
                /\ is_node_black(T2, get_sibling_node(T2, n).node)
                /\ InOrderKeys(T2) = InOrderKeys(Tree)

\* C18: in a valid tree, for a BLACK node that is not the root, whose
\* sibling is BLACK with a RED outer child, case 6 completes, puts the
\* sibling in the parent's place with the colour the parent had, colours
\* the old parent and the outer child, now the sibling's children, BLACK,
\* and, when the node is a leaf, unlinking it then leaves a valid tree
\* without its key.
C18_Case6Completes ==
    (Running /\ ValidTree(Tree)) =>
        \A n \in InUse :
            (/\ n # root
             /\ is_node_black(Tree, n)
             /\ is_node_black(Tree, get_sibling_node(Tree, n).node)
             /\ is_node_red(Tree, ChildOn(Tree, get_sibling_node(Tree, n).node,
                                          get_sibling_node(Tree, n).dir)))
            =>
            LET p == heap[n].parent
                s == get_sibling_node(Tree, n).node
                outer == ChildOn(Tree, s, get_sibling_node(Tree, n).dir)
                g == heap[p].parent
                T2 == __case_6(Tree, n)
            IN  /\ T2.exc = NoExc
                /\ T2.heap[s].parent = g
                /\ IF g = None THEN T2.root = s
                   ELSE ChildOn(T2, g, SideOf(Tree, p)) = s
                /\ T2.heap[s].color = heap[p].color
                /\ ChildOn(T2, s, SideOf(Tree, n)) = p
                /\ ChildOn(T2, s, get_sibling_node(Tree, n).dir) = outer
                /\ T2.heap[p].color = black
                /\ T2.heap[outer].color = black
                /\ ~has_children(Tree, n) =>
                       /\ ValidTree(__remove_leaf(T2, n))
                       /\ InOrderKeys(__remove_leaf(T2, n))
                              = SelectSeq(InOrderKeys(Tree),
                                          LAMBDA k : k # heap[n].key)

\* the other side
Opposite(d) == IF d = LEFT THEN RIGHT ELSE LEFT

\* node n is BLACK and not the root, its sibling is BLACK, the sibling's
\* child next to n is RED and the sibling's outer child is not RED
Case5Applies(T, n) ==
    /\ n # T.root
    /\ is_node_black(T, n)
    /\ is_node_black(T, get_sibling_node(T, n).node)
    /\ is_node_red(T, ChildOn(T, get_sibling_node(T, n).node, SideOf(T, n)))
    /\ is_node_not_red(T, ChildOn(T, get_sibling_node(T, n).node,
                                  get_sibling_node(T, n).dir))

\* C19: in a valid tree, for a node to which case 5 applies, the step of
\* case 5 puts the sibling's closer child in the sibling's place under the
\* same parent on the same side and colours it BLACK, makes the old sibling
\* its outer child and colours it RED, keeps the keys of the in-order walk,
\* and case 5 then goes on as case 6 does from that tree, where the node's
\* sibling is BLACK with a RED outer child.
C19_Case5LiftsCloserChild ==
    (Running /\ ValidTree(Tree)) =>
        \A n \in InUse : Case5Applies(Tree, n) =>
            LET p == heap[n].parent
                s == get_sibling_node(Tree, n).node
                d == get_sibling_node(Tree, n).dir
                closer == ChildOn(Tree, s, Opposite(d))
                T2 == __case_5_step(Tree, n)
            IN  /\ d = Opposite(SideOf(Tree, n))
                /\ T2.exc = NoExc
                /\ T2.root = root
                /\ ChildOn(T2, p, d) = closer
                /\ T2.heap[closer].parent = p
                /\ T2.heap[closer].color = black
                /\ ChildOn(T2, closer, d) = s
                /\ T2.heap[s].parent = closer
                /\ T2.heap[s].color = RED
                /\ ChildOn(T2, p, SideOf(Tree, n)) = n
                /\ T2.heap[n].parent = p
                /\ T2.heap[p].color = heap[p].color
                /\ InOrderKeys(T2) = InOrderKeys(Tree)
                /\ get_sibling_node(T2, n).node = closer
                /\ is_node_black(T2, get_sibling_node(T2, n).node)
                /\ is_node_red(T2, ChildOn(T2, get_sibling_node(T2, n).node,
                                           get_sibling_node(T2, n).dir))
                /\ __case_5(Tree, n) = __case_6(T2, n)

\* a valid tree of four nodes or more with a BLACK leaf to which case 5
\* applies and whose sibling is on the LEFT; the step of case 5 changes the
\* tree
C19_Case5Reached ==
    /\ Running
    /\ ValidTree(Tree)
    /\ Cardinality(InUse) >= 4
    /\ \E n \in InUse :
          /\ Case5Applies(Tree, n)
          /\ SideOf(Tree, n) = RIGHT
          /\ __case_5_step(Tree, n).heap # heap

\* node n is not the root, its parent and its sibling are BLACK and
\* neither child of the sibling is RED
Case3Applies(T, n) ==
    /\ n # T.root
    /\ is_node_black(T, T.heap[n].parent)
    /\ is_node_black(T, get_sibling_node(T, n).node)
    /\ is_node_not_red(T, T.heap[get_sibling_node(T, n).node].left)
    /\ is_node_not_red(T, T.heap[get_sibling_node(T, n).node].right)

\* C20: in a valid tree, for a node to which case 3 applies, the step of
\* case 3 changes the colour of the sibling to RED and nothing else; the
\* balancer, entered at case 1 or at case 3 with the node, goes on as case 1
\* does with the parent from that tree; and when the parent is the root it
\* ends there without an exception, the root BLACK and nothing else changed.
C20_Case3RecoloursSibling ==
    (Running /\ ValidTree(Tree)) =>
        \A n \in InUse : Case3Applies(Tree, n) =>
            LET p == heap[n].parent
                s == get_sibling_node(Tree, n).node
                T2 == __case_3_step(Tree, n)
            IN  /\ T2.exc = NoExc
                /\ T2.root = root
                /\ T2.heap = [heap EXCEPT ![s].color = RED]
                /\ __case_3(Tree, n) = __case_1(T2, p)
                /\ __case_1(Tree, n) = __case_1(T2, p)
                /\ p = root =>
                       /\ __case_1(Tree, n).exc = NoExc
                       /\ __case_1(Tree, n).root = root
                       /\ __case_1(Tree, n).heap[root].color = black
                       /\ __case_1(Tree, n).heap = T2.heap

\* a valid tree with a BLACK leaf to which case 3 applies and whose parent is
\* the root: the balancer changes the tree and ends at the root
C20_Case3Reached ==
    /\ Running
    /\ ValidTree(Tree)
    /\ \E n \in InUse :
          /\ Case3Applies(Tree, n)
          /\ is_node_black(Tree, n)
          /\ ~has_children(Tree, n)
          /\ heap[n].parent = root
          /\ __case_1(Tree, n).heap # heap
          /\ __case_1(Tree, n).exc = NoExc

\* node n is BLACK and not the root, its parent is RED, its sibling is
\* BLACK and neither child of the sibling is RED
Case4Applies(T, n) ==
    /\ n # T.root
    /\ is_node_black(T, n)
    /\ is_node_red(T, T.heap[n].parent)
    /\ is_node_black(T, get_sibling_node(T, n).node)
    /\ is_node_not_red(T, T.heap[get_sibling_node(T, n).node].left)
    /\ is_node_not_red(T, T.heap[get_sibling_node(T, n).node].right)

\* C21: in a valid tree, for a node to which case 4 applies, case 4 colours
\* the parent BLACK and the sibling RED and changes nothing else, the
\* balancer entered at case 1 with the node ends with exactly that, and when
\* the node is a leaf, unlinking it then leaves a valid tree without its
\* key.
C21_Case4SwapsColours ==
    (Running /\ ValidTree(Tree)) =>
        \A n \in InUse : Case4Applies(Tree, n) =>
            LET p == heap[n].parent
                s == get_sibling_node(Tree, n).node
                T2 == __case_4(Tree, n)
            IN  /\ T2.exc = NoExc
                /\ T2.root = root
                /\ T2.heap = [heap EXCEPT ![p].color = black,
                                          ![s].color = RED]
                /\ __case_1(Tree, n) = T2
                /\ ~has_children(Tree, n) =>
                       /\ __remove_black_node(Tree, n).exc = NoExc
                       /\ ValidTree(__remove_black_node(Tree, n))
                       /\ InOrderKeys(__remove_black_node(Tree, n))
                              = SelectSeq(InOrderKeys(Tree),
                                          LAMBDA k : k # heap[n].key)

\* a valid tree with a BLACK leaf to which case 4 applies: the balancer
\* changes the tree
C21_Case4Reached ==
    /\ Running
    /\ ValidTree(Tree)
    /\ \E n \in InUse :
          /\ Case4Applies(Tree, n)
          /\ ~has_children(Tree, n)
          /\ __case_4(Tree, n).heap # heap
          /\ __case_4(Tree, n).exc = NoExc

\* C22: in a valid tree, remove_key(k) of a key k that is in the tree ends
\* without an exception: neither the failure at the end of case 6, nor one
\* of the two failures of __remove, nor any other internal error.
C22_NoInternalFailure ==
    (Running /\ ValidTree(Tree)) =>
        \A k \in Keys : Holders(k) # {} => remove_key(Tree, k).exc = NoExc

\* the set of real nodes reached from the root
NodeSet(T) ==
    LET walk == InOrder(T, T.root, Fuel) IN {walk[i] : i \in 1..Len(walk)}

\* C23: in a tree whose keys ascend in the in-order walk, for a node gp and
\* its real child p on the side opposite to direction d,
\* rotate(d, None, p, gp) puts p where gp was (child of gp's parent on gp's
\* side, or the root), makes gp the child of p on side d, hangs the former
\* d-side subtree of p under gp on the vacated side with its parent
\* reference set to gp, leaves the other two subtrees and all colours, and
\* keeps the set of nodes and the keys of the in-order walk.
C23_RotateRelinks ==
    (Running /\ NonDecreasing(InOrderKeys(Tree))) =>
        \A gp \in InUse : \A d \in {LEFT, RIGHT} :
            ChildOn(Tree, gp, Opposite(d)) # NIL_NODE =>
            LET p == ChildOn(Tree, gp, Opposite(d))
                ggp == heap[gp].parent
                sub == ChildOn(Tree, p, d)
                T2 == rotate(Tree, d, None, p, gp, FALSE)
            IN  /\ T2.exc = NoExc
                /\ T2.heap[p].parent = ggp
                /\ IF ggp = None THEN T2.root = p
                   ELSE /\ T2.root = root
                        /\ ChildOn(T2, ggp, SideOf(Tree, gp)) = p
                        /\ ChildOn(T2, ggp, Opposite(SideOf(Tree, gp)))
                               = ChildOn(Tree, ggp, Opposite(SideOf(Tree, gp)))
                /\ ChildOn(T2, p, d) = gp
                /\ T2.heap[gp].parent = p
                /\ ChildOn(T2, gp, Opposite(d)) = sub
                /\ T2.heap[sub].parent = gp
                /\ ChildOn(T2, p, Opposite(d)) = ChildOn(Tree, p, Opposite(d))
                /\ ChildOn(T2, gp, d) = ChildOn(Tree, gp, d)
                /\ \A c \in InUse : T2.heap[c].color = heap[c].color
                /\ NodeSet(T2) = NodeSet(Tree)
                /\ InOrderKeys(T2) = InOrderKeys(Tree)

\* a rotate() call without recolouring has returned that was made below the
\* root and moved a real subtree: the grandparent of the call is now the
\* child of the parent of the call on the side of the direction, the parent
\* hangs under another node, and the grandparent holds a real subtree on
\* the vacated side whose parent reference points to it
C23_RotatedBelowRoot ==
    /\ call.op = "rotate"
    /\ ~call.to_recolor
    /\ Running
    /\ \E p \in InUse, gp \in InUse :
          /\ heap[p].key = call.key
          /\ heap[gp].key = call.value
          /\ ChildOn(Tree, p, call.direction) = gp
          /\ heap[gp].parent = p
          /\ p # root
          /\ p \in RealChildren(heap[p].parent)
          /\ ChildOn(Tree, gp, Opposite(call.direction)) # NIL_NODE
          /\ heap[ChildOn(Tree, gp, Opposite(call.direction))].parent = gp

\* node n is BLACK and not the root and has exactly one real child, which
\* is RED
BlackWithRedChild(T, n) ==
    /\ n # T.root
    /\ is_node_black(T, n)
    /\ get_children_count(T, n) = 1
    /\ is_node_red(T, get_child_node(T, n))

\* C24: in a valid tree, remove_key of the key of a BLACK node that is not
\* the root and has exactly one real child, a RED one, ends without an
\* exception; the node keeps its place, its parent and the colour BLACK,
\* holds the child's key and bucket and has two sentinel children; no other
\* linked node and not the sentinel is changed; the tree is valid and its
\* in-order keys are the former ones without the removed key.
C24_RedChildAbsorbed ==
    (Running /\ ValidTree(Tree)) =>
        \A n \in InUse : BlackWithRedChild(Tree, n) =>
            LET c == get_child_node(Tree, n)
                T2 == remove_key(Tree, heap[n].key)
            IN  /\ T2.exc = NoExc
                /\ T2.root = root
                /\ T2.heap[n] = [heap[n] EXCEPT !.key = heap[c].key,
                                                !.values = heap[c].values,
                                                !.left = NIL_NODE,
                                                !.right = NIL_NODE]
                /\ T2.heap[n].color = black
                /\ T2.heap[n].parent = heap[n].parent
                /\ \A m \in (InUse \cup {NIL_NODE}) \ {n, c} :
                       T2.heap[m] = heap[m]
                /\ NodeSet(T2) = InUse \ {c}
                /\ ValidTree(T2)
                /\ InOrderKeys(T2) = SelectSeq(InOrderKeys(Tree),
                                               LAMBDA k : k # heap[n].key)

\* a valid tree of four nodes or more with such a node whose RED child
\* hangs on the left: remove_key of its key changes the tree
C24_RedChildReached ==
    /\ Running
    /\ ValidTree(Tree)
    /\ Cardinality(InUse) >= 4
    /\ \E n \in InUse :
          /\ BlackWithRedChild(Tree, n)
          /\ heap[n].left # NIL_NODE
          /\ remove_key(Tree, heap[n].key).heap # heap
          /\ remove_key(Tree, heap[n].key).exc = NoExc

\* the node add(k, .) hangs a new leaf under, for a key k that is not in
\* the non-empty tree T
AttachPoint(T, k) == find_node(T, k, TRUE).node

\* C25: in a tree built by add() calls, when the node that add(k, v) hangs
\* the new leaf under is BLACK or has no parent, the call ends without an
\* exception, the new node is a RED leaf with that parent, the parent's
\* child link on the side of k, a sentinel link before, points to the new
\* node, and nothing else is changed: not the root, no other field of the
\* parent, no other node and not the sentinel.
C25_NoRebalancingUnderBlackParent ==
    (Running /\ root # None) =>
        \A k \in AddKeys : Holders(k) = {} =>
            LET p == AttachPoint(Tree, k)
                nn == NewRef(Tree)
                T2 == add(Tree, k, k)
            IN  (is_node_black(Tree, p) \/ heap[p].parent = None) =>
                /\ T2.exc = NoExc
                /\ T2.root = root
                /\ T2.heap[nn] = RBNode(k, k, RED, p, NIL_NODE, NIL_NODE)
                /\ IF k < heap[p].key
                   THEN /\ heap[p].left = NIL_NODE
                        /\ T2.heap[p] = [heap[p] EXCEPT !.left = nn]
                   ELSE /\ heap[p].right = NIL_NODE
                        /\ T2.heap[p] = [heap[p] EXCEPT !.right = nn]
                /\ \A m \in (InUse \cup {NIL_NODE}) \ {p} :
                       T2.heap[m] = heap[m]

\* a tree of four nodes or more, built by add() calls, with an absent key
\* whose new leaf goes under a BLACK node that is not the root
C25_BlackParentReached ==
    /\ Running
    /\ Cardinality(InUse) >= 4
    /\ \E k \in AddKeys :
          /\ Holders(k) = {}
          /\ is_node_black(Tree, AttachPoint(Tree, k))
          /\ AttachPoint(Tree, k) # root
          /\ add(Tree, k, k).heap # heap
          /\ add(Tree, k, k).exc = NoExc

\* a second RedBlackTree instance B with the one key 1, made in the memory
\* the tree of the state lives in: its node is a new object, its sentinel
\* is the class attribute NIL_NODE, the same object for every instance
OtherTree == add([root |-> None, heap |-> heap, exc |-> NoExc], 1, 1)

\* what can be read from tree B when the memory is as in T: what in_order
\* gives for B, the fields of its root node and the fields of the sentinel
ReadFrom(B, T) ==
    [in_order |-> in_order([B EXCEPT !.heap = T.heap], B.root, 1),
     node |-> T.heap[B.root],
     sentinel |-> T.heap[NIL_NODE]]

\* C26: no call writes the sentinel, and with a second instance B beside
\* the tree A of the state, neither add of an absent key to A nor
\* remove_key of a present key from A changes what can be read from B.
C26_TreesDoNotInterfere ==
    Running =>
        /\ heap[NIL_NODE] = NilCell
        /\ Cardinality(InUse) + 2 <= MaxNodes =>
               LET B == OtherTree
                   A == [Tree EXCEPT !.heap = B.heap]
               IN  \A k \in Keys :
                       IF Holders(k) = {}
                       THEN ReadFrom(B, add(A, k, k)) = ReadFrom(B, B)
                       ELSE ReadFrom(B, remove_key(A, k)) = ReadFrom(B, B)

\* the number of parent links from node n up to the root
RECURSIVE Depth(_, _, _)
Depth(T, n, fuel) ==
    IF fuel = 0 \/ T.heap[n].parent = None THEN 0
    ELSE 1 + Depth(T, T.heap[n].parent, fuel - 1)

\* the node the next run of the balancer is for
BalancerNode == CHOOSE c \in Holders(call.key) : TRUE

\* C27: every add() call ends: once the balancer is at work the call
\* returns, and a run of try_rebalance that is followed by another one
\* leaves to it a node two levels nearer to the root, with the same nodes in
\* the tree.
C27_AddTerminates ==
    /\ [][(Balancing /\ Balancing') =>
             /\ Depth(Tree, BalancerNode, Fuel) >= 2
             /\ Depth(Tree, BalancerNode, Fuel) - 2
                    = Depth([Tree EXCEPT !.root = root', !.heap = heap'],
                            BalancerNode', Fuel)
             /\ InUse' = InUse
             /\ call'.value = call.value]_vars
    /\ Balancing ~> (call.op = "add" /\ exc = NoExc)

\* the balancer is at work in its second run or a later one, on a RED node
\* whose parent is RED too: the run before recoloured, this one has a
\* violation to mend
C27_SecondRunAtWork ==
    /\ Balancing
    /\ call.key # call.value
    /\ is_node_red(Tree, BalancerNode)
    /\ heap[BalancerNode].parent # None
    /\ is_node_red(Tree, heap[BalancerNode].parent)

\* C28: after every call that has returned, the root has no parent, the
\* walk from the root through the child links meets no node twice (no cycle
\* and no node with two ways to it), and every real child of a node of the
\* walk names that node as its parent.
C28_LinksFormTree ==
    exc = NoExc =>
        LET walk == InOrder(Tree, root, Fuel)
        IN  /\ root # None => heap[root].parent = None
            /\ \A i, j \in 1..Len(walk) : walk[i] = walk[j] => i = j
            /\ \A i \in 1..Len(walk) :
                   /\ heap[walk[i]].left \in Refs =>
                          heap[heap[walk[i]].left].parent = walk[i]
                   /\ heap[walk[i]].right \in Refs =>
                          heap[heap[walk[i]].right].parent = walk[i]

\* the links of T: the root and every object's parent and children
Links(T) ==
    [root |-> T.root,
     of |-> [c \in Cells |->
                <<T.heap[c].parent, T.heap[c].left, T.heap[c].right>>]]

\* the trees one rotate() call away from T: a real child p of a node g
\* lifted over g
OneRotation(T) ==
    {rotate(T, d, None,
            IF d = LEFT THEN T.heap[g].right ELSE T.heap[g].left, g, FALSE) :
        <<d, g>> \in {dg \in {LEFT, RIGHT} \X Refs :
                        /\ T.heap[dg[2]].color \in {black, RED}
                        /\ (IF dg[1] = LEFT THEN T.heap[dg[2]].right
                            ELSE T.heap[dg[2]].left) \in Refs}}

\* the links no, one or two rotate() calls away from those of T
UpToTwoRotations(T) ==
    {Links(T)} \cup {Links(t1) : t1 \in OneRotation(T)}
        \cup UNION {{Links(t2) : t2 \in OneRotation(t1)} : t1 \in OneRotation(T)}

\* C29: an add() call makes at most two rotations: between two calls, for
\* every absent key k, the links add(k, k) leaves are those of the tree with
\* the new leaf attached, rotated at most twice; and of the single runs of
\* the balancer, one that is followed by another run changes no link, and
\* the last one rotates at most twice.
C29_AtMostTwoRotations ==
    Running =>
        IF Balancing
        THEN LET step == try_rebalance_step(Tree, BalancerNode)
             IN  IF step.next # None
                 THEN Links(step.tree) = Links(Tree)
                 ELSE Links(step.tree) \in UpToTwoRotations(Tree)
        ELSE root # None =>
                 \A k \in BalanceKeys : Holders(k) = {} =>
                     Links(add(Tree, k, k)) \in
                         UpToTwoRotations(
                             add_new_node(Tree, find_node(Tree, k, TRUE).node,
                                          find_node(Tree, k, TRUE).dir, k, k))

\* an add() into a tree of six nodes or more has ended after a run with two
\* rotations: its new node is BLACK and not the root, and has two RED
\* children
C29_TwoRotationsDone ==
    /\ call.op = "add"
    /\ Running
    /\ Cardinality(InUse) >= 6
    /\ \E c \in InUse :
          /\ heap[c].key = call.key
          /\ c # root
          /\ is_node_black(Tree, c)
          /\ heap[c].left \in Refs
          /\ heap[c].right \in Refs
          /\ is_node_red(Tree, heap[c].left)
          /\ is_node_red(Tree, heap[c].right)

====
